---- MODULE Spec2Model ----
(***************************************************************************)
(* Tiny64 (src/src/main.rs): a 64-bit identifier                          *)
(*   [ 42 bits: timestamp_ms ] [ 12 bits: sequence ] [ 10 bits: random ]  *)
(* produced from the wall clock, a thread-local (LAST_TIMESTAMP_MS,       *)
(* SEQUENCE) pair and a random field, and rendered as 11 characters of a  *)
(* 64-symbol alphabet ordered by ASCII code.                              *)
(*                                                                         *)
(* A u64 is four 16-bit limbs, the most significant first: TLC's integers *)
(* are 32 bits wide, the program's are 64.  A String is the sequence of   *)
(* its bytes.                                                             *)
(***************************************************************************)
EXTENDS Integers, Sequences, FiniteSets, TLC

(***************************************************************************)
(* Bounds of the model.                                                    *)
(***************************************************************************)
\* Millisecond values 0..MaxClock and 2^42+MaxClock can be read.
MaxClock == 1
\* Random fields 0..MaxRandom-1 and 1023 can be drawn.
MaxRandom == 1
\* Encoder inputs: bit patterns of kinds 0..MaxPattern at every bit position.
MaxPattern == 1
\* Two contexts: a call starts at a stored sequence of at most MaxBurst, or
\* of 4094 and 4095, next to the wrap.
MaxBurst == 1

(***************************************************************************)
(* u64 arithmetic on four 16-bit limbs << w3, w2, w1, w0 >>, the most      *)
(* significant first: the value is w3*2^48 + w2*2^32 + w1*2^16 + w0.       *)
(***************************************************************************)
Pow2(n) == 2 ^ n

\* An operator's operand is evaluated anew at each use.  Where an operand is
\* used many times it is bound once, as the element of a singleton set:
\* CHOOSE r \in {F(v) : v \in {x}} : TRUE is F(x).

\* x & y of two naturals, bit by bit.
RECURSIVE AndBits(_, _)
AndBits(x, y) ==
  IF x = 0 \/ y = 0 THEN 0
  ELSE (x % 2) * (y % 2) + 2 * AndBits(x \div 2, y \div 2)

\* x | y of two naturals, bit by bit.
RECURSIVE OrBits(_, _)
OrBits(x, y) ==
  IF x = 0 THEN y
  ELSE IF y = 0 THEN x
  ELSE (IF (x % 2) + (y % 2) > 0 THEN 1 ELSE 0) + 2 * OrBits(x \div 2, y \div 2)

\* AndBits and OrBits of two 4-bit digits, tabulated: the entry of (x, y) is
\* at 16 * x + y + 1.
AndDigits == [k \in 1..256 |-> AndBits((k - 1) \div 16, (k - 1) % 16)] \o << >>

OrDigits == [k \in 1..256 |-> OrBits((k - 1) \div 16, (k - 1) % 16)] \o << >>

\* x & y and x | y below 2^16, four bits at a time.
And16(x, y) ==
  AndDigits[16 * (x % 16) + (y % 16) + 1]
    + 16 * AndDigits[16 * ((x \div 16) % 16) + ((y \div 16) % 16) + 1]
    + 256 * AndDigits[16 * ((x \div 256) % 16) + ((y \div 256) % 16) + 1]
    + 4096 * AndDigits[16 * (x \div 4096) + (y \div 4096) + 1]

Or16(x, y) ==
  OrDigits[16 * (x % 16) + (y % 16) + 1]
    + 16 * OrDigits[16 * ((x \div 16) % 16) + ((y \div 16) % 16) + 1]
    + 256 * OrDigits[16 * ((x \div 256) % 16) + ((y \div 256) % 16) + 1]
    + 4096 * OrDigits[16 * (x \div 4096) + (y \div 4096) + 1]

\* x & y of two naturals.
RECURSIVE AndN(_, _)
AndN(x, y) ==
  CHOOSE r \in {IF v = 0 \/ w = 0 THEN 0
                ELSE IF v < 65536 /\ w < 65536 THEN And16(v, w)
                ELSE And16(v % 65536, w % 65536)
                       + 65536 * AndN(v \div 65536, w \div 65536) :
                v \in {x}, w \in {y}} : TRUE

\* x | y of two naturals.
RECURSIVE OrN(_, _)
OrN(x, y) ==
  CHOOSE r \in {IF v = 0 THEN w
                ELSE IF w = 0 THEN v
                ELSE IF v < 65536 /\ w < 65536 THEN Or16(v, w)
                ELSE Or16(v % 65536, w % 65536)
                       + 65536 * OrN(v \div 65536, w \div 65536) :
                v \in {x}, w \in {y}} : TRUE

\* x << n and x >> n of a natural that stays below 2^31.
ShlN(x, n) == x * Pow2(n)

ShrN(x, n) == x \div Pow2(n)

\* The u64 whose value is the natural n (n < 2^31).
FromNat(n) == << 0, 0, n \div 65536, n % 65536 >>

\* Limb j of x, limb 0 the least significant; 0 outside the 64 bits.
LimbAt(x, j) == IF j >= 0 /\ j <= 3 THEN x[4 - j] ELSE 0

\* a & b
And64(x, y) ==
  CHOOSE r \in {<< AndN(v[1], w[1]), AndN(v[2], w[2]),
                   AndN(v[3], w[3]), AndN(v[4], w[4]) >> : v \in {x}, w \in {y}} :
    TRUE

\* a | b
Or64(x, y) ==
  CHOOSE r \in {<< OrN(v[1], w[1]), OrN(v[2], w[2]),
                   OrN(v[3], w[3]), OrN(v[4], w[4]) >> : v \in {x}, w \in {y}} :
    TRUE

\* Limb j of x << n: the low bits of limb j - n/16 moved up, and the high
\* bits of the limb below it.  Bits shifted out at the top are lost.
ShlLimb(x, n, j) ==
  LET q == n \div 16
      r == n % 16
  IN  (LimbAt(x, j - q) % Pow2(16 - r)) * Pow2(r)
        + LimbAt(x, j - q - 1) \div Pow2(16 - r)

Shl64(x, n) ==
  CHOOSE r \in {<< ShlLimb(v, n, 3), ShlLimb(v, n, 2),
                   ShlLimb(v, n, 1), ShlLimb(v, n, 0) >> : v \in {x}} : TRUE

\* Limb j of x >> n.
ShrLimb(x, n, j) ==
  LET q == n \div 16
      r == n % 16
  IN  LimbAt(x, j + q) \div Pow2(r)
        + (LimbAt(x, j + q + 1) % Pow2(r)) * Pow2(16 - r)

Shr64(x, n) ==
  CHOOSE r \in {<< ShrLimb(v, n, 3), ShrLimb(v, n, 2),
                   ShrLimb(v, n, 1), ShrLimb(v, n, 0) >> : v \in {x}} : TRUE

\* The mask with the low n bits set.
LowMaskLimb(n, j) ==
  IF n >= 16 * (j + 1) THEN 65535
  ELSE IF n <= 16 * j THEN 0
  ELSE Pow2(n - 16 * j) - 1

LowMask(n) ==
  << LowMaskLimb(n, 3), LowMaskLimb(n, 2), LowMaskLimb(n, 1), LowMaskLimb(n, 0) >>

\* a < b, unsigned: decided at the most significant limb that differs.
RECURSIVE ULessFrom(_, _, _)
ULessFrom(x, y, i) ==
  IF i > 4 THEN FALSE
  ELSE IF x[i] # y[i] THEN x[i] < y[i]
  ELSE ULessFrom(x, y, i + 1)

ULess(x, y) == ULessFrom(x, y, 1)

ULeq(x, y) == x = y \/ ULess(x, y)

(***************************************************************************)
(* The encoder.                                                            *)
(***************************************************************************)
\* The alphabet in the order of RFC 4648 base64url, which is not the order
\* of the ASCII codes: A-Z a-z 0-9 - _
BASE64_ALPHABET_Rfc4648 ==
  [i \in 1..26 |-> 64 + i] \o [i \in 1..26 |-> 96 + i]
    \o [i \in 1..10 |-> 47 + i] \o <<45, 95>>

\* The alphabet with its first two symbols exchanged: "0-123456789A..."
BASE64_ALPHABET_Swapped ==
  <<48, 45>> \o [i \in 1..9 |-> 48 + i] \o [i \in 1..26 |-> 64 + i]
             \o <<95>> \o [i \in 1..26 |-> 96 + i]

\* ASCII codes 45, 48..57, 65..90, 95, 97..122:
\* b"-0123456789ABCDEFGHIJKLMNOPQRSTUVWXYZ_abcdefghijklmnopqrstuvwxyz"
BASE64_ALPHABET ==
  <<45>> \o [i \in 1..10 |-> 47 + i] \o [i \in 1..26 |-> 64 + i]
         \o <<95>> \o [i \in 1..26 |-> 96 + i]

\* BASE64_ALPHABET[k], k counted from 0 as in the source.
Symbol(k) == BASE64_ALPHABET[k + 1]

\* Line 12 with to_le_bytes: bytes[0] is the least significant byte.
to_be_bytes_LittleEndian(v) ==
  << v[4] % 256, v[4] \div 256, v[3] % 256, v[3] \div 256,
     v[2] % 256, v[2] \div 256, v[1] % 256, v[1] \div 256 >>

\* value.to_be_bytes(): bytes[0] is the most significant byte.
to_be_bytes(v) ==
  << v[1] \div 256, v[1] % 256, v[2] \div 256, v[2] % 256,
     v[3] \div 256, v[3] % 256, v[4] \div 256, v[4] % 256 >>

\* bytes[i], i counted from 0.
Byte(bytes, i) == bytes[i + 1]

\* Lines 31-42 with the two-byte case lost (i + 2 < len for i + 1 < len): the
\* remaining bytes always take the one-byte branch.
EncodeRemaining_OneByte(bytes, i) ==
  IF i < Len(bytes)
  THEN LET b1 == Byte(bytes, i)
       IN  <<Symbol(AndN(ShrN(b1, 2), 63))>> \o
           (IF i + 2 < Len(bytes)
            THEN LET b2 == Byte(bytes, i + 1)
                 IN  << Symbol(OrN(ShlN(AndN(b1, 3), 4), AndN(ShrN(b2, 4), 15))),
                        Symbol(ShlN(AndN(b2, 15), 2)) >>
            ELSE << Symbol(ShlN(AndN(b1, 3), 4)) >>)
  ELSE << >>

\* Lines 31-42 with the mask of line 40 used at line 38 (0x03 for 0x0F): bits
\* 3 and 2 of the last byte are dropped.
EncodeRemaining_NarrowMask(bytes, i) ==
  IF i < Len(bytes)
  THEN LET b1 == Byte(bytes, i)
       IN  <<Symbol(AndN(ShrN(b1, 2), 63))>> \o
           (IF i + 1 < Len(bytes)
            THEN LET b2 == Byte(bytes, i + 1)
                 IN  << Symbol(OrN(ShlN(AndN(b1, 3), 4), AndN(ShrN(b2, 4), 15))),
                        Symbol(ShlN(AndN(b2, 3), 2)) >>
            ELSE << Symbol(ShlN(AndN(b1, 3), 4)) >>)
  ELSE << >>

\* Lines 31-42: what is pushed for the bytes left after the 3-byte groups.
EncodeRemaining(bytes, i) ==
  IF i < Len(bytes)
  THEN LET b1 == Byte(bytes, i)
       IN  <<Symbol(AndN(ShrN(b1, 2), 63))>> \o
           (IF i + 1 < Len(bytes)
            THEN LET b2 == Byte(bytes, i + 1)
                 IN  << Symbol(OrN(ShlN(AndN(b1, 3), 4), AndN(ShrN(b2, 4), 15))),
                        Symbol(ShlN(AndN(b2, 15), 2)) >>
            ELSE << Symbol(ShlN(AndN(b1, 3), 4)) >>)
  ELSE << >>

\* Lines 16-28: the loop over groups of 3 bytes, then the remaining bytes.
RECURSIVE EncodeFrom(_, _)
EncodeFrom(bytes, i) ==
  IF i + 2 < Len(bytes)
  THEN LET b1 == Byte(bytes, i)
           b2 == Byte(bytes, i + 1)
           b3 == Byte(bytes, i + 2)
       IN  << Symbol(AndN(ShrN(b1, 2), 63)),
              Symbol(OrN(ShlN(AndN(b1, 3), 4), AndN(ShrN(b2, 4), 15))),
              Symbol(OrN(ShlN(AndN(b2, 15), 2), AndN(ShrN(b3, 6), 3))),
              Symbol(AndN(b3, 63)) >> \o EncodeFrom(bytes, i + 3)
  ELSE EncodeRemaining(bytes, i)

base64_encode_u64(v) ==
  CHOOSE r \in {EncodeFrom(bytes, 0) : bytes \in {to_be_bytes(v)}} : TRUE

\* Rust's String comparison: byte-wise lexical, a proper prefix is smaller.
RECURSIVE StrLessFrom(_, _, _)
StrLessFrom(s, t, i) ==
  IF i > Len(t) THEN FALSE
  ELSE IF i > Len(s) THEN TRUE
  ELSE IF s[i] # t[i] THEN s[i] < t[i]
  ELSE StrLessFrom(s, t, i + 1)

StrLess(s, t) == StrLessFrom(s, t, 1)

StrLeq(s, t) == s = t \/ StrLess(s, t)

(***************************************************************************)
(* The wall clock.  An instant is a point of real time; instants are       *)
(* numbered in the order of real time.  Instant 1 lies before the Unix     *)
(* epoch, the others are a whole number of milliseconds after it.          *)
(***************************************************************************)
BeforeEpoch == 1

NumInstants == MaxClock + 3

Instants == 1..NumInstants

Zero64 == FromNat(0)

\* Milliseconds since the epoch at the instants after it: 0..MaxClock, then
\* 2^42 + MaxClock.
Millis ==
  [c \in 2..NumInstants |->
     IF c - 2 <= MaxClock
     THEN FromNat(c - 2)
     ELSE Or64(Shl64(FromNat(1), 42), FromNat(MaxClock))]

MillisAt(c) == Millis[c]

\* SystemTime::now().duration_since(UNIX_EPOCH): Err before the epoch.
duration_since_epoch(c) ==
  IF c = BeforeEpoch
  THEN [ok |-> FALSE, ms |-> Zero64]
  ELSE [ok |-> TRUE, ms |-> MillisAt(c)]

\* Line 57 with a fallback for the panic (unwrap_or_default): a time before
\* the epoch reads as 0 ms.
current_time_ms_Fallback(c) ==
  [ok |-> TRUE, ms |-> IF c = BeforeEpoch THEN Zero64 ELSE MillisAt(c)]

\* .expect(..) panics on Err; otherwise .as_millis() as u64.
current_time_ms(c) == duration_since_epoch(c)

(***************************************************************************)
(* The generator.                                                          *)
(***************************************************************************)
SEQUENCE_MODULUS == 4096

TIMESTAMP_MASK == LowMask(42)

\* Line 122 with a mask that keeps nothing of the sequence.
SEQUENCE_MASK_Empty == LowMask(0)

SEQUENCE_MASK == LowMask(12)

RANDOM_MASK == 1023

\* hasher.finish() for the hashes the model draws; the low 10 bits of the
\* largest are all ones, and it has a bit above them.
HashVals == (0..(MaxRandom - 1)) \cup {2047}

\* Line 76 without the mask.
generate_random_10bit_NoMask(hash) == hash

\* Lines 75-76: (hash & 0x3FF) as u16
generate_random_10bit(hash) == AndN(hash, RANDOM_MASK)

\* Lines 121-123 with the random field above the sequence field.
PackValue_RandomAboveSequence(timestamp_ms, sequence, rnd) ==
  Or64(Or64(Shl64(And64(timestamp_ms, TIMESTAMP_MASK), 22),
            Shl64(And64(FromNat(rnd), FromNat(RANDOM_MASK)), 12)),
       And64(FromNat(sequence), SEQUENCE_MASK))

\* Lines 121-123 with the sequence shifted by its width (12) instead of the
\* width of the random field (10).
PackValue_SequenceShift(timestamp_ms, sequence, rnd) ==
  Or64(Or64(Shl64(And64(timestamp_ms, TIMESTAMP_MASK), 22),
            Shl64(And64(FromNat(sequence), SEQUENCE_MASK), 12)),
       And64(FromNat(rnd), FromNat(RANDOM_MASK)))

\* Lines 121-123.
PackValue(timestamp_ms, sequence, rnd) ==
  Or64(Or64(Shl64(And64(timestamp_ms, TIMESTAMP_MASK), 22),
            Shl64(And64(FromNat(sequence), SEQUENCE_MASK), 10)),
       And64(FromNat(rnd), FromNat(RANDOM_MASK)))

\* Line 96 with the modulus one too small.
NextSequence_Modulus4095(current_seq) == (current_seq + 1) % (SEQUENCE_MODULUS - 1)

\* Line 96.
NextSequence(current_seq) == (current_seq + 1) % SEQUENCE_MODULUS

\* Line 94 with <= for ==: a clock that went back counts as the same
\* millisecond.
SameMillisecond_OrEarlier(n, last) == ULeq(n, last)

\* Line 94: now == last.
SameMillisecond(n, last) == n = last

\* Line 81 with a loop that is never entered.
KeepWaiting_Never(t, current) == t # t

\* Line 81 with < for ==: the loop ends at once, the clock still at current.
KeepWaiting_WhileEarlier(t, current) == ULess(t, current)

\* Line 81: the loop condition of wait_next_millisecond.
KeepWaiting(t, current) == t = current

VARIABLES
  pc,                 \* "idle" | "spin" | "random" | "panicked"
  LAST_TIMESTAMP_MS,  \* thread-local Cell<u64>
  SEQUENCE,           \* thread-local Cell<u16>
  now,                \* local of generate_tiny64
  current_seq,        \* local of generate_tiny64
  result,             \* (timestamp_ms, sequence, random) of line 88 in the
                      \*   latest call that returned, << >> if none yet
  clock,              \* the instant the latest clock sample was taken at,
                      \*   0 before the first sample
  mono,               \* history: no sample was earlier than the one before it
  maxPair,            \* history: the largest (timestamp field, sequence
                      \*   field) packed at lines 121-122 by a call that
                      \*   returned, kept while the clock has neither moved
                      \*   backward nor reached 2^42 ms; << >> if none
  callsInMs,          \* history: calls of the current run at one fixed
                      \*   instant, the first of which reset the sequence
  overflowed,         \* history: the latest call entered the spin-wait
  exitSample,         \* history: the instant of the sample that ended the
                      \*   spin-wait of the latest call, 0 if it had none
  a, b,               \* encoder inputs
  ea, eb,             \* encoder outputs
  encoded,            \* the encoder ran on a and b
  pt, ps, pr,         \* packing inputs: timestamp_ms, sequence, random
  pv,                 \* packing output
  packed,             \* the packing ran on pt, ps, pr
  thread,             \* the context (thread) that pc .. result belong to
  other               \* the thread-locals and locals of the other context

vars ==
  << pc, LAST_TIMESTAMP_MS, SEQUENCE, now, current_seq, result, clock, mono,
     maxPair, callsInMs, overflowed, exitSample, a, b, ea, eb, encoded,
     pt, ps, pr, pv, packed, thread, other >>

ctxVars == << thread, other >>

encVars == << a, b, ea, eb, encoded >>

packVars == << pt, ps, pr, pv, packed >>

genVars ==
  << pc, LAST_TIMESTAMP_MS, SEQUENCE, now, current_seq, result, clock, mono,
     maxPair, callsInMs, overflowed, exitSample >>

\* Lines 119-123: the 64-bit value of the latest identifier returned.
value ==
  CHOOSE v \in {PackValue(result[1], result[2], result[3])} : TRUE

\* Line 125: the latest identifier returned, << >> if none yet.
id ==
  IF result = << >> THEN << >>
  ELSE CHOOSE r \in {base64_encode_u64(v) : v \in {value}} : TRUE

\* The instants whose millisecond value is below 2^42.
InRange == {c \in 2..NumInstants : Shr64(MillisAt(c), 42) = Zero64}

\* The fields of a value: bits 63..22, 21..10 and 9..0.
TimestampField(v) == And64(Shr64(v, 22), LowMask(42))

SequenceField(v) == And64(Shr64(v, 10), LowMask(12))

RandomField(v) == And64(v, LowMask(10))

PairOf(v) ==
  CHOOSE p \in {<< TimestampField(w), SequenceField(w) >> : w \in {v}} : TRUE

\* (timestamp field, sequence field) pairs, ordered as bits 63..10 are.
PairLess(p, q) == ULess(p[1], q[1]) \/ (p[1] = q[1] /\ ULess(p[2], q[2]))

\* What every clock sample does to the clock and its history.
Sampled(c) ==
  /\ clock' = c
  /\ mono' = (mono /\ c >= clock)

\* A panic that leaves the context as a fresh one.
Panic_StateReset ==
  /\ pc' = "panicked"
  /\ LAST_TIMESTAMP_MS' = Zero64
  /\ SEQUENCE' = 0
  /\ UNCHANGED << now, current_seq, result, maxPair, callsInMs, overflowed,
                  exitSample >>

\* Lines 57 and 69: expect and unwrap panic; the call returns nothing.
Panic ==
  /\ pc' = "panicked"
  /\ UNCHANGED << LAST_TIMESTAMP_MS, SEQUENCE, now, current_seq, result,
                  maxPair, callsInMs, overflowed, exitSample >>

\* Lines 109-110 without seq.set(current_seq).
UpdateState_SequenceNotStored(n, s) ==
  /\ LAST_TIMESTAMP_MS' = n
  /\ SEQUENCE' = SEQUENCE
  /\ now' = n
  /\ current_seq' = s
  /\ pc' = "random"

\* Lines 109-110 without last.set(now).
UpdateState_TimestampNotStored(n, s) ==
  /\ LAST_TIMESTAMP_MS' = LAST_TIMESTAMP_MS
  /\ SEQUENCE' = s
  /\ now' = n
  /\ current_seq' = s
  /\ pc' = "random"

\* Lines 109-110, then on to line 113.
UpdateState(n, s) ==
  /\ LAST_TIMESTAMP_MS' = n
  /\ SEQUENCE' = s
  /\ now' = n
  /\ current_seq' = s
  /\ pc' = "random"

\* Line 50 with Cell::new(1).
GenInit_SequenceOne ==
  /\ pc = "idle"
  /\ LAST_TIMESTAMP_MS = Zero64
  /\ SEQUENCE = 1
  /\ now = Zero64
  /\ current_seq = 0
  /\ result = << >>
  /\ clock = 0
  /\ mono = TRUE
  /\ maxPair = << >>
  /\ callsInMs = 0
  /\ overflowed = FALSE
  /\ exitSample = 0

GenInit ==
  /\ pc = "idle"
  /\ LAST_TIMESTAMP_MS = Zero64
  /\ SEQUENCE = 0
  /\ now = Zero64
  /\ current_seq = 0
  /\ result = << >>
  /\ clock = 0
  /\ mono = TRUE
  /\ maxPair = << >>
  /\ callsInMs = 0
  /\ overflowed = FALSE
  /\ exitSample = 0

\* generate_tiny64, lines 88-110: from the call to the state update, or to
\* the entry of wait_next_millisecond.
Call(c) ==
  /\ pc = "idle"
  /\ Sampled(c)
  /\ LET t == current_time_ms(c)
         last == LAST_TIMESTAMP_MS
         seq == NextSequence(SEQUENCE)
         run == IF callsInMs > 0 /\ c = clock THEN callsInMs + 1 ELSE 0
     IN  IF ~t.ok THEN Panic
         ELSE /\ exitSample' = 0
              /\ UNCHANGED << result, maxPair >>
              /\ IF SameMillisecond(t.ms, last)
                 THEN IF seq = 0
                      THEN /\ pc' = "spin"
                           /\ now' = t.ms
                           /\ current_seq' = seq
                           /\ callsInMs' = run
                           /\ overflowed' = TRUE
                           /\ UNCHANGED << LAST_TIMESTAMP_MS, SEQUENCE >>
                      ELSE /\ UpdateState(t.ms, seq)
                           /\ callsInMs' = run
                           /\ overflowed' = FALSE
                 ELSE /\ UpdateState(t.ms, 0)
                      /\ callsInMs' = 1
                      /\ overflowed' = FALSE
  /\ UNCHANGED << encVars, packVars, ctxVars >>

\* wait_next_millisecond, lines 81-83: one iteration that stays in the loop.
SpinLoop(c) ==
  /\ pc = "spin"
  /\ current_time_ms(c).ok
  /\ KeepWaiting(current_time_ms(c).ms, now)
  /\ Sampled(c)
  /\ UNCHANGED << pc, LAST_TIMESTAMP_MS, SEQUENCE, now, current_seq, result,
                  maxPair, callsInMs, overflowed, exitSample >>
  /\ UNCHANGED << encVars, packVars, ctxVars >>

\* wait_next_millisecond: the iteration that ends the loop (sample c), then
\* lines 101-110 (sample c2), or the panic of either sample.
SpinExit(c, c2) ==
  /\ pc = "spin"
  /\ LET t == current_time_ms(c)
         t2 == current_time_ms(c2)
     IN  IF ~t.ok
         THEN /\ Sampled(c)
              /\ Panic
         ELSE /\ ~KeepWaiting(t.ms, now)
              /\ clock' = c2
              /\ mono' = (mono /\ c >= clock /\ c2 >= c)
              /\ IF ~t2.ok THEN Panic
                 ELSE /\ UpdateState(t2.ms, current_seq)
                      /\ callsInMs' = 0
                      /\ exitSample' = c
                      /\ UNCHANGED << result, maxPair, overflowed >>
  /\ UNCHANGED << encVars, packVars, ctxVars >>

\* Lines 113-117: generate_random_10bit (its clock sample c, its hash); the
\* closure returns (now, current_seq, random), which lines 119-125 pack and
\* encode (value, id).
Random(c, hash) ==
  /\ pc = "random"
  /\ Sampled(c)
  /\ IF ~duration_since_epoch(c).ok THEN Panic
     ELSE LET r == generate_random_10bit(hash)
              pair == << And64(now, TIMESTAMP_MASK),
                         And64(FromNat(current_seq), SEQUENCE_MASK) >>
          IN  /\ result' = << now, current_seq, r >>
              /\ maxPair' = IF mono' /\ c \in InRange
                            THEN (IF maxPair = << >> \/ PairLess(maxPair, pair)
                                  THEN pair ELSE maxPair)
                            ELSE << >>
              /\ callsInMs' = IF c = clock THEN callsInMs ELSE 0
              /\ pc' = "idle"
              /\ UNCHANGED << LAST_TIMESTAMP_MS, SEQUENCE, now, current_seq,
                              overflowed, exitSample >>
  /\ UNCHANGED << encVars, packVars, ctxVars >>

(***************************************************************************)
(* The encoder on its own: the inputs are drawn from bit patterns.         *)
(***************************************************************************)
\* Kind 0: only bit k set.  Kind 1: bits k..0 set.  Kind 2 and above: every
\* bit but the bits k .. k-kind+2 set.
Pattern(kind, k) ==
  IF kind = 0 THEN Shl64(FromNat(1), k)
  ELSE IF kind = 1 THEN LowMask(k + 1)
  ELSE Or64(Shl64(LowMask(64), k + 1), LowMask(IF k > kind - 2 THEN k - (kind - 2) ELSE 0))

EncVals ==
  {Zero64} \cup {Pattern(kind, k) : kind \in 0..MaxPattern, k \in 0..63}

EncInit ==
  /\ a \in EncVals
  /\ b \in EncVals
  /\ ea = << >>
  /\ eb = << >>
  /\ encoded = FALSE

Encode ==
  /\ ~encoded
  /\ ea' = base64_encode_u64(a)
  /\ eb' = base64_encode_u64(b)
  /\ encoded' = TRUE
  /\ UNCHANGED << a, b >>
  /\ UNCHANGED << genVars, packVars, ctxVars >>

EncIdle ==
  /\ a = Zero64
  /\ b = Zero64
  /\ ea = << >>
  /\ eb = << >>
  /\ encoded = FALSE

(***************************************************************************)
(* The packing on its own: the fields are drawn from bit patterns.         *)
(***************************************************************************)
\* The naturals with one bit of the low n set, or the low k bits (k <= n),
\* or (kinds above 1) all but one of the low n bits.
NatPatterns(n) ==
  {0} \cup {Pow2(k) : k \in 0..(n - 1)} \cup {Pow2(k) - 1 : k \in 1..n}
      \cup {Pow2(n) - 1 - Pow2(k) : k \in 0..(IF MaxPattern > 1 THEN n - 1 ELSE -1)}

PackInit ==
  /\ pt \in EncVals
  /\ ps \in NatPatterns(12)
  /\ pr \in NatPatterns(10)
  /\ pv = Zero64
  /\ packed = FALSE

Pack ==
  /\ ~packed
  /\ pv' = PackValue(pt, ps, pr)
  /\ packed' = TRUE
  /\ UNCHANGED << pt, ps, pr >>
  /\ UNCHANGED << genVars, encVars, ctxVars >>

PackIdle ==
  /\ pt = Zero64
  /\ ps = 0
  /\ pr = 0
  /\ pv = Zero64
  /\ packed = FALSE

(***************************************************************************)
(* Two contexts.  LAST_TIMESTAMP_MS and SEQUENCE are thread_local (lines   *)
(* 48-51): each thread has its own pair, and its own locals.  pc .. result *)
(* are those of the running thread, other holds those of the other one.    *)
(***************************************************************************)
\* Lines 49-50: Cell::new(0), Cell::new(0); no call made yet.
FreshContext ==
  [pc |-> "idle", LAST_TIMESTAMP_MS |-> Zero64, SEQUENCE |-> 0,
   now |-> Zero64, current_seq |-> 0, result |-> << >>]

\* The state of the running thread.
Running ==
  [pc |-> pc, LAST_TIMESTAMP_MS |-> LAST_TIMESTAMP_MS, SEQUENCE |-> SEQUENCE,
   now |-> now, current_seq |-> current_seq, result |-> result]

\* The histories are those of one context: they start anew.
SwitchHistory ==
  /\ maxPair' = << >>
  /\ callsInMs' = 0
  /\ overflowed' = FALSE
  /\ exitSample' = 0
  /\ UNCHANGED << clock, mono >>

\* LAST_TIMESTAMP_MS and SEQUENCE as statics shared by the threads: the
\* thread that runs next finds the pair the other one left.
Switch_SharedState ==
  /\ thread' = 3 - thread
  /\ other' = Running
  /\ pc' = other.pc
  /\ UNCHANGED << LAST_TIMESTAMP_MS, SEQUENCE >>
  /\ now' = other.now
  /\ current_seq' = other.current_seq
  /\ result' = other.result
  /\ SwitchHistory
  /\ UNCHANGED << encVars, packVars >>

\* The scheduler runs the other thread: between any two steps of a call.
Switch ==
  /\ thread' = 3 - thread
  /\ other' = Running
  /\ pc' = other.pc
  /\ LAST_TIMESTAMP_MS' = other.LAST_TIMESTAMP_MS
  /\ SEQUENCE' = other.SEQUENCE
  /\ now' = other.now
  /\ current_seq' = other.current_seq
  /\ result' = other.result
  /\ SwitchHistory
  /\ UNCHANGED << encVars, packVars >>

\* One thread only: the first, the other never started.
CtxIdle ==
  /\ thread = 1
  /\ other = FreshContext

\* A call of the running thread, within the bound on the calls explored.
CtxCall(c) ==
  /\ SEQUENCE <= MaxBurst \/ SEQUENCE >= SEQUENCE_MODULUS - 2
  /\ Call(c)

(***************************************************************************)
(* Specifications.                                                         *)
(***************************************************************************)
Init == GenInit /\ EncIdle /\ PackIdle /\ CtxIdle

Next ==
  \/ \E c \in Instants : Call(c)
  \/ \E c \in Instants : SpinLoop(c)
  \/ \E c \in Instants, c2 \in Instants : SpinExit(c, c2)
  \/ \E c \in Instants, hash \in HashVals : Random(c, hash)

Spec == Init /\ [][Next]_vars

\* The spin loop samples the clock again and again, far more often than the
\* clock changes: a changed clock is seen.  A running call takes its steps.
\*
\* The calls that wait come after 4096 others.  Behaviours start from the
\* fresh context or from the state Spec reaches by 4095 calls in a fresh
\* context at 1 ms (hash 0): sequences 0..4094 returned, two calls before
\* the wait.
NearOverflow ==
  /\ pc = "idle"
  /\ clock = 3
  /\ mono = TRUE
  /\ LAST_TIMESTAMP_MS = MillisAt(3)
  /\ SEQUENCE = SEQUENCE_MODULUS - 2
  /\ now = MillisAt(3)
  /\ current_seq = SEQUENCE_MODULUS - 2
  /\ result = << MillisAt(3), SEQUENCE_MODULUS - 2, 0 >>
  /\ maxPair = << MillisAt(3), FromNat(SEQUENCE_MODULUS - 2) >>
  /\ callsInMs = SEQUENCE_MODULUS - 1
  /\ overflowed = FALSE
  /\ exitSample = 0

FairInit == (GenInit \/ NearOverflow) /\ EncIdle /\ PackIdle /\ CtxIdle

FairSpec ==
  /\ FairInit
  /\ [][Next]_vars
  /\ WF_vars(\E c \in Instants, c2 \in Instants : SpinExit(c, c2))
  /\ WF_vars(\E c \in Instants, hash \in HashVals : Random(c, hash))

\* base64_encode_u64 applied to every pair of inputs.
EncSpecInit == GenInit /\ EncInit /\ PackIdle /\ CtxIdle

EncNext == Encode

EncSpec == EncSpecInit /\ [][EncNext]_vars

\* The packing of lines 121-123 applied to every triple of inputs.
PackSpecInit == GenInit /\ EncIdle /\ PackInit /\ CtxIdle

\* Two threads, each with its own context, interleaved step by step: the
\* first fresh or two calls before the wrap of its sequence, the second
\* fresh.
CtxInit == (GenInit \/ NearOverflow) /\ EncIdle /\ PackIdle /\ CtxIdle

CtxNext ==
  \/ \E c \in Instants : CtxCall(c)
  \/ \E c \in Instants : SpinLoop(c)
  \/ \E c \in Instants, c2 \in Instants : SpinExit(c, c2)
  \/ \E c \in Instants, hash \in HashVals : Random(c, hash)
  \/ Switch

CtxSpec == CtxInit /\ [][CtxNext]_vars

PackNext == Pack

PackSpec == PackSpecInit /\ [][PackNext]_vars

(***************************************************************************)
(* Properties of the encoder (EncSpec).                                    *)
(***************************************************************************)
\* The bytes of the ASCII alphanumerics, '-' and '_'.
UrlSafeBytes == (48..57) \cup (65..90) \cup (97..122) \cup {45, 95}

AlphabetBytes == {BASE64_ALPHABET[i] : i \in 1..Len(BASE64_ALPHABET)}

WellFormed(str) ==
  /\ Len(str) = 11
  /\ \A i \in 1..Len(str) : str[i] \in AlphabetBytes /\ str[i] \in UrlSafeBytes

\* C5: for all u64 values a < b, base64_encode_u64(a) is strictly smaller
\* than base64_encode_u64(b) under byte-wise lexical comparison.
C5_OrderPreserved == (encoded /\ ULess(a, b)) => StrLess(ea, eb)

\* a < b differ in the last character only: its 4 value bits decide.
C5_Witness ==
  /\ encoded
  /\ ULess(a, b)
  /\ StrLess(ea, eb)
  /\ SubSeq(ea, 1, 10) = SubSeq(eb, 1, 10)

\* C6: for every u64 input base64_encode_u64 returns exactly 11 characters,
\* each a symbol of the alphabet, which holds only ASCII alphanumerics, '-'
\* and '_' (so does every identifier, which is base64_encode_u64 of a u64).
C6_LengthAndAlphabet == encoded => (WellFormed(ea) /\ WellFormed(eb))

\* The all-ones input is encoded: the last character carries 4 bits.
C6_Witness ==
  /\ encoded
  /\ a = LowMask(64)
  /\ Len(ea) = 11
  /\ ea[11] = Symbol(60)

\* C10: for all u64 values a # b the encodings differ.
C10_Injective == (encoded /\ a # b) => ea # eb

\* 0 and 1 differ in bit 0 only, and so do their encodings in the last
\* character only.
C10_Witness ==
  /\ encoded
  /\ a = Zero64
  /\ b = FromNat(1)
  /\ ea # eb
  /\ SubSeq(ea, 1, 10) = SubSeq(eb, 1, 10)

(***************************************************************************)
(* Properties of the packing (PackSpec).                                   *)
(***************************************************************************)
\* (t << 22) | (s << 10) | r, without the masks of lines 121-123.
PlainPack(t, s, r) == Or64(Or64(Shl64(t, 22), Shl64(FromNat(s), 10)), FromNat(r))

\* C9: for all t < 2^42, s < 4096, r < 1024 the value packed at lines 121-123
\* is (t << 22) | (s << 10) | r, unpacking it with (v >> 22) & 0x3FF_FFFF_FFFF,
\* (v >> 10) & 0xFFF, v & 0x3FF recovers (t, s, r), and the three fields lie
\* in the disjoint bit ranges 63-22, 21-10 and 9-0.
C9_RoundTrip ==
  (packed /\ Shr64(pt, 42) = Zero64) =>
    /\ pv = PlainPack(pt, ps, pr)
    /\ TimestampField(pv) = pt
    /\ SequenceField(pv) = FromNat(ps)
    /\ RandomField(pv) = FromNat(pr)
    /\ And64(Shl64(pt, 22), LowMask(22)) = Zero64
    /\ Shr64(Shl64(FromNat(ps), 10), 22) = Zero64
    /\ And64(Shl64(FromNat(ps), 10), LowMask(10)) = Zero64
    /\ Shr64(FromNat(pr), 10) = Zero64

\* The largest fields are packed: every bit of the value is set.
C9_Witness ==
  /\ packed
  /\ pt = LowMask(42)
  /\ ps = 4095
  /\ pr = 1023
  /\ pv = LowMask(64)

(***************************************************************************)
(* Properties of the generator (Spec, FairSpec).                           *)
(***************************************************************************)
\* The step on which a call returns its identifier.
Returns == pc = "random" /\ pc' = "idle"

\* After the step the clock has never moved backward.
MonotonicClock == mono'

\* After the step the clock has never moved backward and every reading was
\* below 2^42 ms (the latest is the largest).
SteadyClock == mono' /\ clock' \in InRange

\* The largest value whose (timestamp, sequence) fields are the pair p.
LargestWith(p) == Or64(Or64(Shl64(p[1], 22), Shl64(p[2], 10)), LowMask(10))

\* C1 as claimed: while the wall clock never moves backward, each identifier
\* returned is >= the one returned before it, as a 64-bit value and as an
\* 11-character string.
C1_Original ==
  [][(Returns /\ result # << >> /\ MonotonicClock)
       => \A v \in {value}, w \in {value'}, s \in {id}, t \in {id'} :
            ULeq(v, w) /\ StrLeq(s, t)]_vars

\* C1 amended: the same while the clock also stays below 2^42 ms, where the
\* 42-bit timestamp field wraps.
C1_Monotonic ==
  [][(Returns /\ result # << >> /\ SteadyClock)
       => \A v \in {value}, w \in {value'}, s \in {id}, t \in {id'} :
            ULeq(v, w) /\ StrLeq(s, t)]_vars

\* The second identifier of millisecond 1 has been returned.
C1_Witness ==
  /\ pc = "idle"
  /\ mono
  /\ clock \in InRange
  /\ result # << >>
  /\ result[1] = FromNat(1)
  /\ result[2] = 1

\* C2 as claimed: with a clock that never decreases, an identifier differs
\* from the one returned before it (as all identifiers differ pairwise).
C2_Original ==
  [][(Returns /\ result # << >> /\ MonotonicClock) => id' # id]_vars

\* C2 amended: with a clock that never decreases and stays below 2^42 ms,
\* each identifier returned is greater than every value that carries the
\* (timestamp, sequence) fields of an earlier one, whatever the random fields:
\* it differs from all of them.  Against the one before it, the sequence
\* fields differ when the timestamp fields are equal.
C2_Distinct ==
  [][(Returns /\ SteadyClock) =>
       \A w \in {value'} :
         /\ maxPair # << >> =>
              \A m \in {LargestWith(maxPair)} : ULess(m, w)
         /\ result # << >> =>
              \A v \in {value} :
                /\ id' # id
                /\ TimestampField(w) = TimestampField(v)
                     => SequenceField(w) # SequenceField(v)]_vars

\* Four identifiers of one millisecond have been returned.
C2_Witness ==
  /\ pc = "idle"
  /\ mono
  /\ clock \in InRange
  /\ result # << >>
  /\ maxPair = PairOf(value)
  /\ result[2] = 3

\* C3 as claimed: of the calls made while the clock stays at one fixed
\* millisecond, the 4096th takes the overflow path.
C3_Original == callsInMs = SEQUENCE_MODULUS => overflowed

\* C3 amended: of the calls made while the clock stays at one fixed
\* millisecond, the first of which found another last_timestamp_ms and reset
\* the sequence to 0, the first 4096 get the sequences 0..4095 without
\* waiting, and the 4097th takes the overflow path: it waits (or panics in
\* the wait) with the state still at sequence 4095.
C3_Boundary ==
  callsInMs > 0 =>
    IF callsInMs <= SEQUENCE_MODULUS
    THEN /\ ~overflowed
         /\ pc # "spin"
         /\ SEQUENCE = callsInMs - 1
    ELSE /\ callsInMs = SEQUENCE_MODULUS + 1
         /\ overflowed
         /\ pc \in {"spin", "panicked"}
         /\ SEQUENCE = SEQUENCE_MODULUS - 1
         /\ current_seq = 0

\* The 4097th call of a millisecond is in the spin-wait.
C3_Witness ==
  /\ pc = "spin"
  /\ callsInMs = SEQUENCE_MODULUS + 1
  /\ overflowed

\* C4 as claimed: for every sequence of calls and clock readings, an
\* identifier never has the (timestamp field, sequence field) pair of the
\* one returned before it (as of none returned earlier).
C4_Original ==
  [][(Returns /\ result # << >>)
       => \A v \in {value}, w \in {value'} : PairOf(w) # PairOf(v)]_vars

\* C4 amended: while the clock never moves backward and stays below 2^42 ms,
\* the (timestamp field, sequence field) pair of each identifier returned is
\* greater than the pair of every identifier returned earlier.
C4_PairsIncrease ==
  [][(Returns /\ SteadyClock /\ maxPair # << >>)
       => \A p \in {PairOf(value')} : PairLess(maxPair, p)]_vars

\* An identifier has been returned after the spin-wait, with sequence 0 in
\* the next millisecond.
C4_Witness ==
  /\ pc = "idle"
  /\ mono
  /\ clock \in InRange
  /\ overflowed
  /\ result # << >>
  /\ result[2] = 0
  /\ maxPair = PairOf(value)

\* C7: a step of a call in which a clock sample reads before the epoch ends
\* the call in a panic and returns nothing; the timestamp of every identifier
\* returned is a clock reading, never a fallback.
C7_PanicBeforeEpoch ==
  /\ [][clock' = BeforeEpoch => (pc' = "panicked" /\ result' = result)]_vars
  /\ [](result # << >> => \E c \in 2..NumInstants : result[1] = MillisAt(c))

\* A call panicked after earlier calls had returned identifiers.
C7_Witness ==
  /\ pc = "panicked"
  /\ clock = BeforeEpoch
  /\ result # << >>

\* C8 as claimed: with a clock that eventually changes, a call that is in
\* the spin-wait, or past it, eventually returns.
C8_Original == (pc \in {"spin", "random"}) ~> (pc = "idle")

\* C8 amended: with a clock that eventually changes, a call that is in the
\* spin-wait eventually returns or panics on a sample before the epoch; it
\* leaves the wait only on a sample that differs from the exhausted
\* millisecond, so while the clock stays there it does not return.
C8_WaitEnds ==
  /\ (pc \in {"spin", "random"}) ~> (pc \in {"idle", "panicked"})
  /\ [][(pc = "spin" /\ pc' = "random")
          => (exitSample' # 0 /\ MillisAt(exitSample') # now)]_vars
  /\ [][(pc = "spin" /\ mono' /\ clock' = clock) => pc' = "spin"]_vars

\* A call returned after its spin-wait.
C8_Witness ==
  /\ pc = "idle"
  /\ overflowed
  /\ exitSample # 0
  /\ result # << >>
  /\ result[2] = 0

(***************************************************************************)
(* C11: the state transition of one call.                                  *)
(***************************************************************************)
\* C11: a call whose sample equals last_timestamp_ms takes (old sequence + 1)
\* mod 4096 as its sequence, one whose sample differs (larger or smaller)
\* takes 0; the wait is entered exactly when the increment wraps, and the
\* call that waited keeps the sequence 0.  After every call that returns,
\* last_timestamp_ms is the untruncated clock value whose low 42 bits are the
\* identifier's timestamp field, and the stored sequence is its sequence
\* field.
C11_Transition ==
  /\ [][(pc = "idle" /\ pc' \in {"random", "spin"}) =>
          IF MillisAt(clock') = LAST_TIMESTAMP_MS
          THEN /\ current_seq' = (SEQUENCE + 1) % 4096
               /\ (pc' = "spin") = (current_seq' = 0)
               /\ pc' = "random" => SEQUENCE' = current_seq'
          ELSE /\ pc' = "random"
               /\ current_seq' = 0
               /\ SEQUENCE' = 0]_vars
  /\ [][(pc = "spin" /\ pc' = "random") =>
          (SEQUENCE' = 0 /\ current_seq' = 0
             /\ LAST_TIMESTAMP_MS' = MillisAt(clock'))]_vars
  /\ [][Returns =>
          \A w \in {value'} :
            /\ \E c \in 2..NumInstants : LAST_TIMESTAMP_MS' = MillisAt(c)
            /\ TimestampField(w) = And64(LAST_TIMESTAMP_MS', LowMask(42))
            /\ SequenceField(w) = FromNat(SEQUENCE')]_vars

\* A call that found its sample equal to last_timestamp_ms returned with
\* the sequence 2 stored.
C11_Witness ==
  /\ pc = "idle"
  /\ result # << >>
  /\ LAST_TIMESTAMP_MS = MillisAt(3)
  /\ SEQUENCE = 2
  /\ result[1] = MillisAt(3)
  /\ result[2] = 2

(***************************************************************************)
(* C12: the identifier of a call that waited.                              *)
(***************************************************************************)
\* The call that returns went through the spin-wait.  The identifier
\* returned before it, result, has the exhausted millisecond and the
\* sequence 4095: the call found its sample equal to last_timestamp_ms.
ReturnsAfterWait == Returns /\ overflowed /\ result # << >>

\* C12 as claimed: with a clock that never moves backward, the identifier
\* of a call that waited never has the pair (exhausted millisecond, 0).
C12_Original ==
  [][(ReturnsAfterWait /\ MonotonicClock) =>
       \A v \in {value}, w \in {value'} :
         PairOf(w) # << TimestampField(v), FromNat(0) >>]_vars

\* C12 amended: a call whose increment wrapped returns an identifier with
\* sequence field 0 and the timestamp of the sample taken after the
\* spin-wait ended; with a clock that never moves backward that sample is
\* later than the exhausted millisecond, and while the clock also stays
\* below 2^42 ms the timestamp field is greater than the exhausted one, so
\* the pair (exhausted millisecond, 0) is not used again.
C12_AfterWait ==
  [][ReturnsAfterWait =>
       \A v \in {value}, w \in {value'} :
         /\ exitSample # 0
         /\ result[2] = 4095
         /\ SequenceField(w) = FromNat(0)
         /\ result'[1] = MillisAt(clock)
         /\ MonotonicClock => ULess(result[1], result'[1])
         /\ SteadyClock =>
              /\ ULess(TimestampField(v), TimestampField(w))
              /\ PairOf(w) # << TimestampField(v), FromNat(0) >>]_vars

\* A call that waited returned with a steady clock.
C12_Witness ==
  /\ pc = "idle"
  /\ overflowed
  /\ mono
  /\ clock \in InRange
  /\ exitSample # 0
  /\ result # << >>
  /\ result[2] = 0
  /\ ULess(Zero64, result[1])

(***************************************************************************)
(* C13: a clock that went back.                                            *)
(***************************************************************************)
\* The timestamp x is below 2^42 ms.
Below42(x) == Shr64(x, 42) = Zero64

\* C13: a call that samples now < last_timestamp_ms neither waits nor
\* fails: it resets the sequence to 0, stores last_timestamp_ms = now and
\* goes on to return.  The identifier of a call whose now is smaller than
\* the timestamp of the identifier returned before it has that smaller
\* timestamp and (both below 2^42 ms) is strictly smaller, as a value and as
\* a string.
C13_Rollback ==
  /\ [][(pc = "idle" /\ clock' # BeforeEpoch
           /\ ULess(MillisAt(clock'), LAST_TIMESTAMP_MS)) =>
          /\ pc' = "random"
          /\ SEQUENCE' = 0
          /\ current_seq' = 0
          /\ LAST_TIMESTAMP_MS' = MillisAt(clock')
          /\ now' = MillisAt(clock')]_vars
  /\ [][(Returns /\ result # << >> /\ ULess(now, result[1])) =>
          /\ result'[1] = now
          /\ (Below42(now) /\ Below42(result[1])) =>
               \A v \in {value}, w \in {value'}, s \in {id}, t \in {id'} :
                 ULess(w, v) /\ StrLess(t, s)]_vars

\* A call has sampled a millisecond earlier than the timestamp of the
\* identifier returned before it, and is about to return with sequence 0.
C13_Witness ==
  /\ pc = "random"
  /\ result # << >>
  /\ ULess(now, result[1])
  /\ Below42(result[1])
  /\ LAST_TIMESTAMP_MS = now
  /\ SEQUENCE = 0
  /\ result[2] > 0

(***************************************************************************)
(* C14: the ranges of the sequence and of the random field.                *)
(***************************************************************************)
\* C14: the stored sequence is always in 0..4095; the sequence field of the
\* identifier a call returned is the stored sequence, which the mask 0xFFF
\* leaves as it is; its random field is in 0..1023 and is the value drawn,
\* none of it in the sequence bits.
C14_SequenceRange ==
  /\ SEQUENCE \in 0..4095
  /\ (pc = "idle" /\ result # << >>) =>
       \A v \in {value} :
         /\ result[2] = SEQUENCE
         /\ And64(FromNat(SEQUENCE), SEQUENCE_MASK) = FromNat(SEQUENCE)
         /\ SequenceField(v) = FromNat(SEQUENCE)
         /\ result[3] \in 0..1023
         /\ RandomField(v) = FromNat(result[3])

\* An identifier with the largest sequence and the largest random field.
C14_Witness ==
  /\ pc = "idle"
  /\ result # << >>
  /\ SEQUENCE = 4095
  /\ result[2] = 4095
  /\ result[3] = 1023

(***************************************************************************)
(* C15: the 6-bit groups of the encoder.                                   *)
(***************************************************************************)
\* ((v * 4) >> (6 * (10 - k))) & 63.  v * 4 has 66 bits; for k < 10 the shift
\* is at least 6, and (v * 4) >> s is v >> (s - 2); for k = 10 the group is
\* the low 4 bits of v with two zero bits below them.
GroupIndex(v, k) ==
  IF k = 10 THEN (v[4] % 16) * 4
  ELSE And64(Shr64(v, 58 - 6 * k), FromNat(63))[4]

GroupsOf(v, str) ==
  /\ Len(str) = 11
  /\ \A k \in 0..10 : str[k + 1] = Symbol(GroupIndex(v, k))
  /\ \E j \in 0..15 : str[11] = Symbol(4 * j)

\* C15: character k of base64_encode_u64(v) is the alphabet symbol at index
\* ((v * 4) >> (6 * (10 - k))) & 63, for k = 0..10; the index of the last
\* character is a multiple of 4.
C15_Grouping == encoded => (GroupsOf(a, ea) /\ GroupsOf(b, eb))

\* The encoding of the value with all 64 bits set: "zzzzzzzzzzw".
C15_Witness ==
  /\ encoded
  /\ a = LowMask(64)
  /\ ea = [k \in 1..10 |-> Symbol(63)] \o << Symbol(60) >>

(***************************************************************************)
(* C16: the order of the alphabet.                                         *)
(***************************************************************************)
\* C16: the alphabet has 64 pairwise distinct symbols, and the ASCII code of
\* the symbol at index i is strictly smaller than that of the symbol at
\* index i + 1, for every i in 0..62; the encoder draws its characters from
\* these symbols.
C16_AlphabetIncreasing ==
  /\ Len(BASE64_ALPHABET) = 64
  /\ Cardinality({Symbol(i) : i \in 0..63}) = 64
  /\ \A i \in 0..62 : Symbol(i) < Symbol(i + 1)
  /\ encoded => \A k \in 1..Len(ea) : \E i \in 0..63 : ea[k] = Symbol(i)

\* The encoder used the first and the last symbol of the alphabet: "-" for
\* the top group of 0, "z" for the top group of the value with all bits set.
C16_Witness ==
  /\ encoded
  /\ a = Zero64
  /\ b = LowMask(64)
  /\ ea[1] = Symbol(0)
  /\ eb[1] = Symbol(63)
  /\ ea[1] < eb[1]

(***************************************************************************)
(* C18: the state of the context after a panic.                            *)
(***************************************************************************)
\* (last_timestamp_ms, sequence) before the call in progress: those of the
\* identifier returned before it (C11), (0, 0) in a fresh context.
PreCall ==
  IF result = << >> THEN << Zero64, 0 >> ELSE << result[1], result[2] >>

Aborts == pc # "panicked" /\ pc' = "panicked"

\* C18 as claimed: whichever sample read before the epoch, the state after
\* the panic is the state before the call.
C18_Original ==
  [][Aborts => << LAST_TIMESTAMP_MS', SEQUENCE' >> = PreCall]_vars

\* C18 amended: between calls the state is that of the identifier returned
\* last.  A call that panics on its first sample, in the spin-wait or on
\* the sample after the wait leaves (last_timestamp_ms, sequence) as before
\* the call; a call that panics on the clock read of the random field has
\* already stored its now and its sequence (lines 109-110), and the state
\* differs from the one before the call.
C18_StateOnError ==
  /\ [](pc = "idle" => << LAST_TIMESTAMP_MS, SEQUENCE >> = PreCall)
  /\ [][Aborts => clock' = BeforeEpoch]_vars
  /\ [][(Aborts /\ pc \in {"idle", "spin"}) =>
          << LAST_TIMESTAMP_MS', SEQUENCE' >> = PreCall]_vars
  /\ [][(Aborts /\ pc = "random") =>
          /\ << LAST_TIMESTAMP_MS', SEQUENCE' >> = << now, current_seq >>
          /\ << LAST_TIMESTAMP_MS', SEQUENCE' >> # PreCall]_vars

\* A call panicked on the clock read of the random field, its state stored.
C18_Witness ==
  /\ pc = "panicked"
  /\ clock = BeforeEpoch
  /\ result # << >>
  /\ << LAST_TIMESTAMP_MS, SEQUENCE >> = << now, current_seq >>
  /\ << LAST_TIMESTAMP_MS, SEQUENCE >> # PreCall

(***************************************************************************)
(* C19: the fresh context.                                                 *)
(***************************************************************************)
\* The call that returns is the first of its context to return.
ReturnsFirst == Returns /\ result = << >>

\* C19 as claimed: the first identifier of a context has sequence field 0,
\* whatever the clock read at that call.
C19_Original ==
  [][ReturnsFirst => \A w \in {value'} : SequenceField(w) = FromNat(0)]_vars

\* C19 amended: a context that has not sampled the clock yet is in state
\* (0, 0).  Its first identifier has sequence field 0 for every clock
\* reading other than 0 ms, and sequence field 1 for the reading 0 ms, which
\* equals the initial last_timestamp_ms.  An identifier whose millisecond is
\* not that of the identifier before it has sequence field 0.
C19_FreshContext ==
  /\ [](clock = 0 =>
          /\ pc = "idle"
          /\ LAST_TIMESTAMP_MS = Zero64
          /\ SEQUENCE = 0
          /\ result = << >>)
  /\ [][ReturnsFirst =>
          \A w \in {value'} :
            SequenceField(w) = FromNat(IF now = Zero64 THEN 1 ELSE 0)]_vars
  /\ [][(Returns /\ result # << >> /\ now # result[1]) =>
          \A w \in {value'} : SequenceField(w) = FromNat(0)]_vars

\* The first call of a fresh context returned, at 1 ms, with sequence 0.
C19_Witness ==
  /\ pc = "idle"
  /\ result # << >>
  /\ result[1] = MillisAt(3)
  /\ result[2] = 0
  /\ callsInMs = 1
  /\ maxPair = << MillisAt(3), Zero64 >>

(***************************************************************************)
(* C17: two contexts.                                                      *)
(***************************************************************************)
\* The value and the string of the identifier the other context returned
\* last.
OtherValue ==
  CHOOSE v \in {PackValue(other.result[1], other.result[2], other.result[3])} :
    TRUE

OtherId ==
  IF other.result = << >> THEN << >>
  ELSE CHOOSE r \in {base64_encode_u64(v) : v \in {OtherValue}} : TRUE

\* C17: a step of the running context reads and changes its own state only:
\* the state of the other context is unchanged by it, under every
\* interleaving of the steps of their calls, and when the other context
\* runs next it finds the state it left, the first one's kept.  Whenever the
\* two contexts' latest identifiers have the same (timestamp field, sequence
\* field) pair, they are equal exactly when their random fields are equal.
C17_Isolation ==
  /\ [][thread' = thread => other' = other]_vars
  /\ [][thread' # thread => (other' = Running /\ Running' = other)]_vars
  /\ [](( /\ result # << >>
          /\ other.result # << >>
          /\ result[2] = other.result[2])
          => \A v \in {value}, w \in {OtherValue} :
               PairOf(v) = PairOf(w) =>
                 /\ (v = w) = (RandomField(v) = RandomField(w))
                 /\ (id = OtherId) = (RandomField(v) = RandomField(w)))

\* The second context returned an identifier with the timestamp and the
\* sequence 0 of the one the first context returned at the same
\* millisecond, and with the same random field: the same identifier.
C17_Witness ==
  /\ thread = 2
  /\ pc = "idle"
  /\ other.pc = "idle"
  /\ result # << >>
  /\ other.result = result
  /\ result[1] = MillisAt(3)
  /\ result[2] = 0
  /\ LAST_TIMESTAMP_MS = other.LAST_TIMESTAMP_MS
  /\ SEQUENCE = other.SEQUENCE

====
